---- MODULE Spec2Model ----
(***************************************************************************)
(* Model of streamlit_app.py (SHiFT Code Finder): normalize_code,          *)
(* fetch_page, extract_codes_and_status_from_html, scan_trackers and the   *)
(* aggregation block of main().                                            *)
(*                                                                         *)
(* A Python str is modelled as a sequence of one-character strings, so     *)
(* that casing, stripping, regex matching, find and slicing are computed   *)
(* character by character.                                                 *)
(***************************************************************************)
EXTENDS Integers, Sequences, FiniteSets, TLC

(***************************************************************************)
(* Characters                                                              *)
(***************************************************************************)
Digits == <<"0","1","2","3","4","5","6","7","8","9">>

UpperLetters ==
  <<"A","B","C","D","E","F","G","H","I","J","K","L","M",
    "N","O","P","Q","R","S","T","U","V","W","X","Y","Z">>

LowerLetters ==
  <<"a","b","c","d","e","f","g","h","i","j","k","l","m",
    "n","o","p","q","r","s","t","u","v","w","x","y","z">>

DigitSet == {Digits[i] : i \in 1..Len(Digits)}

UpperSet == {UpperLetters[i] : i \in 1..Len(UpperLetters)}

LowerSet == {LowerLetters[i] : i \in 1..Len(LowerLetters)}

\* The characters of the model in code-point order (Python compares str by
\* code point): space, '-', '.', '/', digits, '<', '>', A-Z, a-z, sharp s.
CharOrder ==
  <<" ", "-", ".", "/">> \o Digits \o <<"<", ">">> \o UpperLetters
    \o LowerLetters \o <<"ß">>

Ord(c) == CHOOSE i \in 1..Len(CharOrder) : CharOrder[i] = c

\* str.upper() of one character.  It is a string, not a character: the
\* uppercase of the sharp s is the two letters "SS".
UpperCh(c) ==
  IF c \in LowerSet
    THEN <<UpperLetters[CHOOSE i \in 1..Len(LowerLetters) : LowerLetters[i] = c]>>
    ELSE IF c = "ß" THEN <<"S","S">> ELSE <<c>>

\* str.lower() of one character (one character for every character here).
LowerCh(c) ==
  IF c \in UpperSet
    THEN LowerLetters[CHOOSE i \in 1..Len(UpperLetters) : UpperLetters[i] = c]
    ELSE c

RECURSIVE Upper(_)
Upper(str) == IF str = <<>> THEN <<>> ELSE UpperCh(Head(str)) \o Upper(Tail(str))

Lower(str) == [i \in 1..Len(str) |-> LowerCh(str[i])]

\* str.strip(): leading and trailing whitespace removed.
IsSpace(c) == c = " "

Strip(str) ==
  LET keep == {i \in 1..Len(str) : ~IsSpace(str[i])}
  IN  IF keep = {} THEN <<>>
      ELSE LET lo == CHOOSE i \in keep : \A j \in keep : i <= j
               hi == CHOOSE i \in keep : \A j \in keep : j <= i
           IN  SubSeq(str, lo, hi)

\* The character class [A-Z0-9]; under re.IGNORECASE it also takes a-z.
InClass(c, ignorecase) ==
  \/ c \in DigitSet
  \/ c \in UpperSet
  \/ ignorecase /\ c \in LowerSet

\* "-".join(parts)
RECURSIVE Join(_)
Join(parts) ==
  IF parts = <<>> THEN <<>>
  ELSE IF Len(parts) = 1 THEN parts[1]
  ELSE parts[1] \o <<"-">> \o Join(Tail(parts))

(***************************************************************************)
(* The code pattern: five groups of five, each optionally preceded by one  *)
(* hyphen or space.                                                        *)
(***************************************************************************)
GroupLen == 5

CodeLen == 25

GroupAt(str, p, ignorecase) ==
  /\ p + GroupLen - 1 <= Len(str)
  /\ \A k \in 0..(GroupLen - 1) : InClass(str[p + k], ignorecase)

\* [- ]? at position q: the position after the optional separator.
SepSkip(str, q) ==
  IF q <= Len(str) /\ str[q] \in {"-", " "} THEN q + 1 ELSE q

\* Start positions of the five groups of a match of
\* G[- ]?G[- ]?G[- ]?G[- ]?G beginning at p, or <<>> when there is none.
\* The optional separator is greedy and a skipped separator can never be
\* retried as a group character, so the match at p is unique.
GroupStarts(str, p, ignorecase) ==
  LET g1 == p
      g2 == SepSkip(str, g1 + GroupLen)
      g3 == SepSkip(str, g2 + GroupLen)
      g4 == SepSkip(str, g3 + GroupLen)
      g5 == SepSkip(str, g4 + GroupLen)
      gs == <<g1, g2, g3, g4, g5>>
  IN  IF \A k \in 1..5 : GroupAt(str, gs[k], ignorecase) THEN gs ELSE <<>>

\* Index of the last character of a CODE_RE match beginning at p, 0 if none.
\* Second alternative: a dense run of 25.
MatchEnd(str, p) ==
  LET gs == GroupStarts(str, p, TRUE)
  IN  IF gs # <<>> THEN gs[5] + GroupLen - 1
      ELSE IF /\ p + CodeLen - 1 <= Len(str)
              /\ \A k \in 0..(CodeLen - 1) : InClass(str[p + k], TRUE)
             THEN p + CodeLen - 1
             ELSE 0

(***************************************************************************)
(* normalize_code                                                          *)
(***************************************************************************)
IsCodeChar(c) == InClass(c, FALSE)

\* re.search of the five-group pattern in str: the groups of the leftmost
\* match, <<>> when there is no match.
SearchGroups(str) ==
  LET starts == {p \in 1..Len(str) : GroupStarts(str, p, FALSE) # <<>>}
  IN  IF starts = {} THEN <<>>
      ELSE LET p  == CHOOSE q \in starts : \A r \in starts : q <= r
               gs == GroupStarts(str, p, FALSE)
           IN  [k \in 1..5 |-> SubSeq(str, gs[k], gs[k] + GroupLen - 1)]

\* A variant of normalize_code that strips before it has uppercased.
normalize_code_no_upper(str) ==
  LET up    == Strip(str)
      chars == SelectSeq(up, IsCodeChar)
  IN  IF Len(chars) = CodeLen
        THEN Join([k \in 1..5 |->
                     SubSeq(chars, (k - 1) * GroupLen + 1, k * GroupLen)])
        ELSE LET m == SearchGroups(up)
             IN  IF m # <<>> THEN Join(m) ELSE chars

normalize_code(str) ==
  LET up    == Upper(Strip(str))
      chars == SelectSeq(up, IsCodeChar)
  IN  IF Len(chars) = CodeLen
        THEN Join([k \in 1..5 |->
                     SubSeq(chars, (k - 1) * GroupLen + 1, k * GroupLen)])
        ELSE LET m == SearchGroups(up)
             IN  IF m # <<>> THEN Join(m) ELSE chars

(***************************************************************************)
(* extract_codes_and_status_from_html                                      *)
(***************************************************************************)
MinOf(S) == CHOOSE x \in S : \A y \in S : x <= y

\* Position of the first c in str at or after p, 0 when there is none.
NextIdx(str, p, c) ==
  LET S == {i \in p..Len(str) : str[i] = c}
  IN  IF S = {} THEN 0 ELSE MinOf(S)

\* The text nodes of a document whose markup is simple tags <...>: the
\* maximal non-empty runs of characters outside the tags, in document order.
RECURSIVE TextNodes(_, _)
TextNodes(doc, p) ==
  IF p > Len(doc) THEN <<>>
  ELSE LET lt == NextIdx(doc, p, "<")
           gt == IF lt = 0 THEN 0 ELSE NextIdx(doc, lt, ">")
       IN  IF gt = 0 THEN <<SubSeq(doc, p, Len(doc))>>
           ELSE (IF lt = p THEN <<>> ELSE <<SubSeq(doc, p, lt - 1)>>)
                  \o TextNodes(doc, gt + 1)

RECURSIVE JoinSpace(_)
JoinSpace(nodes) ==
  IF nodes = <<>> THEN <<>>
  ELSE IF Len(nodes) = 1 THEN nodes[1]
  ELSE nodes[1] \o <<" ">> \o JoinSpace(Tail(nodes))

\* BeautifulSoup(html, "html.parser").get_text(separator=" ")
GetText(doc) == JoinSpace(TextNodes(doc, 1))

\* The matches of CODE_RE in str, left to right and non-overlapping, as
\* <<first, last>> index pairs.
RECURSIVE SpansFrom(_, _, _)
SpansFrom(str, starts, p) ==
  LET later == {q \in starts : q >= p}
  IN  IF later = {} THEN <<>>
      ELSE LET q == MinOf(later)
               e == MatchEnd(str, q)
           IN  <<(<<q, e>>)>> \o SpansFrom(str, starts, e + 1)

FindSpans(str) ==
  SpansFrom(str, {p \in 1..Len(str) : MatchEnd(str, p) > 0}, 1)

\* CODE_RE.findall(text): the matched strings.
FindAll(str) ==
  LET spans == FindSpans(str)
  IN  [i \in 1..Len(spans) |-> SubSeq(str, spans[i][1], spans[i][2])]

\* str.find(key): 1-based index of the first occurrence, 0 for Python's -1.
Find(str, key) ==
  LET n == Len(key)
      S == {p \in 1..(Len(str) - n + 1) :
              /\ str[p] = key[1]
              /\ SubSeq(str, p, p + n - 1) = key}
  IN  IF S = {} THEN 0 ELSE MinOf(S)

\* key in str
Contains(str, key) == Find(str, key) # 0

SnippetLen == 200

\* str[idx:idx+200] for the 1-based idx
Window(str, idx) ==
  SubSeq(str, idx, IF idx + SnippetLen - 1 <= Len(str)
                     THEN idx + SnippetLen - 1 ELSE Len(str))

KwExpired == <<"e","x","p","i","r","e","d">>

KwActive == <<"a","c","t","i","v","e">>

KwValid == <<"v","a","l","i","d">>

\* A variant of Classify that tests the keywords in the wrong order.
ClassifyActiveFirst(snippet) ==
  IF Contains(snippet, KwActive) \/ Contains(snippet, KwValid) THEN "ACTIVE"
  ELSE IF Contains(snippet, KwExpired) THEN "EXPIRED"
  ELSE "UNKNOWN"

Classify(snippet) ==
  IF Contains(snippet, KwExpired) THEN "EXPIRED"
  ELSE IF Contains(snippet, KwActive) \/ Contains(snippet, KwValid) THEN "ACTIVE"
  ELSE "UNKNOWN"

\* The snippet taken for a normalized code.
SnippetFor(text_lower, code) ==
  LET idx == Find(text_lower, Lower(code))
  IN  IF idx # 0 THEN Window(text_lower, idx) ELSE <<>>

\* A variant of MatchSnippet that searches for the text as it was matched
\* instead of the normalized code.
MatchSnippetRawKey(text_lower, f) == SnippetFor(text_lower, f)

\* Body of the loop over the matches: the snippet of match f.
MatchSnippet(text_lower, f) == SnippetFor(text_lower, normalize_code(f))

MatchRecord(text_lower, f) ==
  [code |-> normalize_code(f), status |-> Classify(MatchSnippet(text_lower, f))]

Extract(doc) ==
  IF doc = <<>> THEN <<>>
  ELSE LET txt == GetText(doc)
           fnd == FindAll(txt)
       IN  [i \in 1..Len(fnd) |-> MatchRecord(Lower(txt), fnd[i])]

(***************************************************************************)
(* State                                                                   *)
(***************************************************************************)
VARIABLES
  raw,            \* normalize_code: the argument s
  normalized,     \* normalize_code: the value returned
  n_pc,           \* normalize_code: "call" or "done"
  html,           \* extract: the argument
  text,           \* extract: soup.get_text(separator=" ")
  found,          \* extract: CODE_RE.findall(text)
  records,        \* extract: the list `results` being built
  snippets,       \* extract: the snippet computed for each record so far
  x_pc,           \* extract: "begin", "loop" or "done"
  urls,           \* scan_trackers: the argument urls
  site,           \* the page each url occurrence is answered with when its
                  \*   request succeeds
  max_workers,    \* scan_trackers: the argument max_workers
  pc,             \* main thread: where main()/scan_trackers stands
  futures,        \* the Future of each submitted url: state and result
  work_queue,     \* the executor's FIFO queue of submitted, untaken work
  num_threads,    \* the number of threads the pool has started
  idle_semaphore, \* the executor's count of idle threads
  fetched,        \* per url occurrence: number of requests.get calls made
  failed,         \* per url occurrence: whether its requests.get failed
  snap,           \* as_completed: futures found finished when it started
  waiterQ,        \* as_completed: futures finished since, in that order
  recorded,       \* the futures the loop has recorded, in that order
  results,        \* the dict `results`/`scanned`: <<url, items>> pairs in
                  \*   insertion order
  rows,           \* main: the list rows
  df,             \* main: the rows of the DataFrame df
  dedup,          \* main: the rows of the DataFrame dedup
  output          \* main: the lines shown by st.code

normVars == <<raw, normalized, n_pc>>

extractVars == <<html, text, found, records, snippets, x_pc>>

scanVars ==
  <<urls, site, max_workers, pc, futures, work_queue, num_threads,
    idle_semaphore, fetched, failed, snap, waiterQ, recorded, results>>

aggVars == <<rows, df, dedup, output>>

vars ==
  <<raw, normalized, n_pc, html, text, found, records, snippets, x_pc,
    urls, site, max_workers, pc, futures, work_queue, num_threads,
    idle_semaphore, fetched, failed, snap, waiterQ, recorded, results,
    rows, df, dedup, output>>

NormIdle == raw = <<>> /\ normalized = <<>> /\ n_pc = "off"

ExtractIdle ==
  /\ html = <<>> /\ text = <<>> /\ found = <<>>
  /\ records = <<>> /\ snippets = <<>> /\ x_pc = "off"

MainIdle ==
  /\ urls = <<>> /\ site = <<>> /\ max_workers = 1 /\ pc = "off"
  /\ futures = <<>> /\ work_queue = <<>> /\ num_threads = 0
  /\ idle_semaphore = 0 /\ fetched = <<>> /\ failed = <<>>
  /\ snap = {} /\ waiterQ = <<>> /\ recorded = <<>> /\ results = <<>>
  /\ rows = <<>> /\ df = <<>> /\ dedup = <<>> /\ output = <<>>

(***************************************************************************)
(* normalize_code on its own                                               *)
(***************************************************************************)
MaxGroups == 5

MinGroups == MaxGroups - 1

\* Mixed-case material the groups of the inputs are cut from.
GroupPattern ==
  <<"a","b","C","d","e","1","2","3","4","5","F","g","H","i","J",
    "6","7","8","9","0","k","L","m","n","o","P","q","R","s","T",
    "u","1","V","2","w">>

GroupText(k) ==
  [j \in 1..GroupLen |->
     GroupPattern[(((k - 1) * GroupLen + j - 1) % Len(GroupPattern)) + 1]]

\* What may stand between two groups: nothing, the separators the pattern
\* knows, other punctuation, two separators, a non-ASCII letter.
Gaps == {<<>>, <<"-">>, <<" ">>, <<".">>, <<"-", " ">>, <<"ß">>}

Pads == {<<>>, <<" ">>}

\* Group k as written in the input; with split, group 2 is written with
\* punctuation inside it.
Written(k, split) ==
  IF split /\ k = 2
    THEN SubSeq(GroupText(k), 1, 2) \o <<"/">> \o SubSeq(GroupText(k), 3, GroupLen)
    ELSE GroupText(k)

RECURSIVE Assemble(_, _, _)
Assemble(n, gaps, split) ==
  IF n = 1 THEN Written(1, split)
  ELSE Assemble(n - 1, gaps, split) \o gaps[n - 1] \o Written(n, split)

NormalizeInputs ==
  UNION {
    {pad \o Assemble(n, gaps, split) \o pad :
       gaps \in [1..(n - 1) -> Gaps], pad \in Pads, split \in BOOLEAN}
    : n \in MinGroups..MaxGroups}

InitNormalize ==
  /\ raw \in NormalizeInputs
  /\ normalized = <<>>
  /\ n_pc = "call"
  /\ ExtractIdle
  /\ MainIdle

NormalizeCode ==
  /\ n_pc = "call"
  /\ normalized' = normalize_code(raw)
  /\ n_pc' = "done"
  /\ UNCHANGED <<raw>>
  /\ UNCHANGED extractVars
  /\ UNCHANGED <<scanVars, aggVars>>

NextNormalize == NormalizeCode

SpecNormalize == InitNormalize /\ [][NextNormalize]_vars

(***************************************************************************)
(* extract_codes_and_status_from_html on its own                           *)
(***************************************************************************)
\* The pages handed to the extractor: at most MaxTokens fragments in a row.
MaxTokens == 4

FillerLen == 180

\* One code as written in three ways: with hyphens, dense, with spaces.
CodeHyphen ==
  <<"A","B","C","D","E","-","1","2","3","4","5","-","F","G","H","I","J","-",
    "6","7","8","9","0","-","K","L","M","N","O">>

CodeDense ==
  <<"a","b","c","d","e","1","2","3","4","5","f","g","h","i","j",
    "6","7","8","9","0","k","l","m","n","o">>

CodeSpaced ==
  <<"A","b","C","d","E"," ","1","2","3","4","5"," ","f","G","h","I","j"," ",
    "6","7","8","9","0"," ","K","l","M","n","O">>

Tokens ==
  { CodeHyphen,
    CodeDense,
    CodeSpaced,
    <<" ","e","x","p","i","r","e","d"," ">>,
    <<" ","v","a","l","i","d"," ">>,
    <<"<","b",">","A","c","t","i","v","e","<","/","b",">">>,
    [i \in 1..FillerLen |-> "."] }

RECURSIVE TokenTexts(_)
TokenTexts(n) ==
  IF n = 0 THEN {<<>>}
  ELSE LET shorter == TokenTexts(n - 1)
       IN  shorter \cup {s \o t : s \in shorter, t \in Tokens}

ExtractPages == TokenTexts(MaxTokens)

InitExtract ==
  /\ html \in ExtractPages
  /\ text = <<>> /\ found = <<>> /\ records = <<>> /\ snippets = <<>>
  /\ x_pc = "begin"
  /\ NormIdle
  /\ MainIdle

\* if not html: return []; text = ...; found = CODE_RE.findall(text)
ExtractBegin ==
  /\ x_pc = "begin"
  /\ IF html = <<>>
       THEN /\ x_pc' = "done"
            /\ UNCHANGED <<text, found>>
       ELSE /\ text' = GetText(html)
            /\ found' = FindAll(text')
            /\ x_pc' = "loop"
  /\ UNCHANGED <<html, records, snippets>>
  /\ UNCHANGED normVars
  /\ UNCHANGED <<scanVars, aggVars>>

\* One iteration of `for f in found`.
ExtractMatch ==
  /\ x_pc = "loop"
  /\ Len(records) < Len(found)
  /\ LET f == found[Len(records) + 1]
     IN  /\ records' = Append(records, MatchRecord(Lower(text), f))
         /\ snippets' = Append(snippets, MatchSnippet(Lower(text), f))
  /\ UNCHANGED <<html, text, found, x_pc>>
  /\ UNCHANGED normVars
  /\ UNCHANGED <<scanVars, aggVars>>

\* return results
ExtractReturn ==
  /\ x_pc = "loop"
  /\ Len(records) = Len(found)
  /\ x_pc' = "done"
  /\ UNCHANGED <<html, text, found, records, snippets>>
  /\ UNCHANGED normVars
  /\ UNCHANGED <<scanVars, aggVars>>

NextExtract == ExtractBegin \/ ExtractMatch \/ ExtractReturn

SpecExtract == InitExtract /\ [][NextExtract]_vars

(***************************************************************************)
(* fetch_page and scan_trackers                                            *)
(***************************************************************************)
MaxUrls == 3

MaxWorkers == 2

UrlNames == <<"u1", "u2", "u3", "u4", "u5", "u6">>

\* A url is only ever compared for equality, so the url lists are taken up
\* to a renaming of the urls: the k-th new url of a list is UrlNames[k].
FirstUseInOrder(q) ==
  \A j \in 1..Len(q) :
    \E k \in 1..j :
      /\ q[j] = UrlNames[k]
      /\ k = 1 \/ \E i \in 1..(j - 1) : q[i] = UrlNames[k - 1]

UrlLists ==
  UNION {{q \in [1..n -> {UrlNames[k] : k \in 1..n}] : FirstUseInOrder(q)}
           : n \in 0..MaxUrls}

CodeOther ==
  <<"0","0","0","0","0","-","1","1","1","1","1","-","2","2","2","2","2","-",
    "3","3","3","3","3","-","4","4","4","4","4">>

\* One code twice, marked valid.
PageA ==
  <<"<","b",">">> \o CodeHyphen \o <<"<","/","b",">">>
    \o <<" ","v","a","l","i","d"," ">> \o CodeHyphen

\* The same code marked expired, then a second code that sorts before it.
PageB == CodeHyphen \o <<" ","e","x","p","i","r","e","d"," ">> \o CodeOther

SitePages == {PageA, PageB}

\* The body that comes with a non-success status.
ErrorBody == <<"4","0","4"," ">> \o CodeHyphen

\* The pages the n requests of a scan are answered with: the two pages by
\* turns, beginning with either, so that two requests for one url can get
\* differing contents.
SiteContents(n) ==
  {[i \in 1..n |-> IF i % 2 = 1 THEN first ELSE CHOOSE q \in SitePages : q # first]
     : first \in SitePages}

\* What requests.get can do for the i-th url: answer with the page, answer
\* with a non-success status, or raise for a connection error or a timeout.
Responses(i) ==
  [kind : {"ok"}, body : {site[i]}]
    \cup [kind : {"http_error"}, body : {ErrorBody}]
    \cup [kind : {"connection_error", "timeout"}, body : {<<>>}]

\* A variant of fetch_page without raise_for_status().
fetch_page_unchecked(url, resp) ==
  IF resp.kind \in {"ok", "http_error"} THEN <<url, resp.body>> ELSE <<url, <<>>>>

fetch_page(url, resp) ==
  IF resp.kind = "ok" THEN <<url, resp.body>> ELSE <<url, <<>>>>

\* A variant of ShouldSpawn that forgets the pool size.
ShouldSpawnUnbounded(sem, n, maxw) == sem = 0

\* ThreadPoolExecutor._adjust_thread_count: a thread is started for a
\* submitted item when no thread is counted idle and the pool is not full.
ShouldSpawn(sem, n, maxw) == sem = 0 /\ n < maxw

\* A variant of SetItem that keeps the entry a url already has.
SetItemKeepFirst(d, url, items) ==
  IF \E k \in 1..Len(d) : d[k][1] = url
    THEN d
    ELSE Append(d, <<url, items>>)

\* results[url] = items on a dict kept in insertion order.
SetItem(d, url, items) ==
  IF \E k \in 1..Len(d) : d[k][1] = url
    THEN [k \in 1..Len(d) |-> IF d[k][1] = url THEN <<url, items>> ELSE d[k]]
    ELSE Append(d, <<url, items>>)

Keys(d) == {d[k][1] : k \in 1..Len(d)}

GetItem(d, url) == d[CHOOSE k \in 1..Len(d) : d[k][1] = url][2]

Finished == {i \in 1..Len(futures) : futures[i].state = "FINISHED"}

Running == {i \in 1..Len(futures) : futures[i].state = "RUNNING"}

\* A variant of AllYielded that stops after the futures that were already
\* finished when the loop started.
AllYieldedSnapshotOnly == snap = {}

\* as_completed is exhausted: every future has been yielded.
AllYielded == snap = {} /\ Len(recorded) = Len(futures)

\* Leaving the `with` block joins the pool: no work queued or running.
PoolDrained == work_queue = <<>> /\ Running = {}

\* extract_codes_and_status_from_html(html) for the contents a fetch can
\* hand to it, computed once.
ExtractOf == [b \in SitePages \cup {ErrorBody, <<>>} |-> Extract(b)]

InitScan ==
  /\ urls \in UrlLists
  /\ site \in SiteContents(Len(urls))
  /\ max_workers \in 1..MaxWorkers
  /\ pc = "submit"
  /\ futures = <<>> /\ work_queue = <<>> /\ num_threads = 0
  /\ idle_semaphore = 0 /\ fetched = <<>> /\ failed = <<>>
  /\ snap = {} /\ waiterQ = <<>> /\ recorded = <<>> /\ results = <<>>
  /\ rows = <<>> /\ df = <<>> /\ dedup = <<>> /\ output = <<>>
  /\ NormIdle
  /\ ExtractIdle

\* ex.submit(fetch_page, url) for the next url of the comprehension.
Submit ==
  /\ pc = "submit"
  /\ Len(futures) < Len(urls)
  /\ futures' = Append(futures, [state |-> "PENDING", result |-> <<>>])
  /\ work_queue' = Append(work_queue, Len(futures) + 1)
  /\ fetched' = Append(fetched, 0)
  /\ failed' = Append(failed, FALSE)
  /\ idle_semaphore' = IF idle_semaphore > 0 THEN idle_semaphore - 1 ELSE 0
  /\ num_threads' = IF ShouldSpawn(idle_semaphore, num_threads, max_workers)
                      THEN num_threads + 1 ELSE num_threads
  /\ UNCHANGED <<urls, site, max_workers, pc, snap, waiterQ, recorded, results>>
  /\ UNCHANGED <<normVars, extractVars, aggVars>>

\* The pool's threads are interchangeable: those not running a work item
\* are blocked on the queue.  A pool thread takes the oldest queued work item and begins fetch_page.
WorkerTake ==
  /\ Cardinality(Running) < num_threads
  /\ work_queue # <<>>
  /\ LET i == Head(work_queue)
     IN  /\ futures' = [futures EXCEPT ![i].state = "RUNNING"]
         /\ fetched' = [fetched EXCEPT ![i] = @ + 1]
  /\ work_queue' = Tail(work_queue)
  /\ UNCHANGED <<urls, site, max_workers, pc, num_threads, idle_semaphore, failed,
                 snap, waiterQ, recorded, results>>
  /\ UNCHANGED <<normVars, extractVars, aggVars>>

\* The request of a running fetch_page is answered or fails; the future
\* gets fetch_page's return value and the thread goes back to the queue.
WorkerFinish(i, resp) ==
  /\ i \in Running
  /\ futures' = [futures EXCEPT
                   ![i] = [state |-> "FINISHED",
                           result |-> fetch_page(urls[i], resp)]]
  /\ failed' = [failed EXCEPT ![i] = (resp.kind # "ok")]
  /\ waiterQ' = IF pc = "collect" THEN Append(waiterQ, i) ELSE waiterQ
  /\ idle_semaphore' = idle_semaphore + 1
  /\ UNCHANGED <<urls, site, max_workers, pc, work_queue, num_threads, fetched,
                 snap, recorded, results>>
  /\ UNCHANGED <<normVars, extractVars, aggVars>>

\* as_completed(futures) starts once the comprehension has submitted every
\* url: it notes the futures already finished and waits for the others.
AsCompleted ==
  /\ pc = "submit"
  /\ Len(futures) = Len(urls)
  /\ snap' = Finished
  /\ pc' = "collect"
  /\ UNCHANGED <<urls, site, max_workers, futures, work_queue, num_threads,
                 idle_semaphore, fetched, failed, waiterQ, recorded, results>>
  /\ UNCHANGED <<normVars, extractVars, aggVars>>

\* One iteration of the loop for future i: the futures that were finished
\* at the start come first, in no particular order, then the others in the
\* order they finish.  fut.result() is the pair fetch_page returned (a
\* future never holds an exception, fetch_page catching its own), its
\* content is extracted and stored under the url.  The time.sleep(0.1) that
\* ends the iteration changes no state.
Collect(i) ==
  /\ pc = "collect"
  /\ IF snap # {}
       THEN /\ i \in snap
            /\ snap' = snap \ {i}
            /\ UNCHANGED waiterQ
       ELSE /\ waiterQ # <<>>
            /\ i = Head(waiterQ)
            /\ waiterQ' = Tail(waiterQ)
            /\ UNCHANGED snap
  /\ results' = SetItem(results, urls[i], ExtractOf[futures[i].result[2]])
  /\ recorded' = Append(recorded, i)
  /\ UNCHANGED <<urls, site, max_workers, pc, futures, work_queue, num_threads,
                 idle_semaphore, fetched, failed>>
  /\ UNCHANGED <<normVars, extractVars, aggVars>>

\* The loop ends, the `with` block joins the pool and scan_trackers returns.
ReturnScan ==
  /\ pc = "collect"
  /\ AllYielded
  /\ PoolDrained
  /\ pc' = "returned"
  /\ UNCHANGED <<urls, site, max_workers, futures, work_queue, num_threads,
                 idle_semaphore, fetched, failed, snap, waiterQ, recorded,
                 results>>
  /\ UNCHANGED <<normVars, extractVars, aggVars>>

(***************************************************************************)
(* main(): the aggregation of the scan result                              *)
(***************************************************************************)
\* The rows of one dict entry.
EntryRows(entry) ==
  [k \in 1..Len(entry[2]) |->
     [source |-> entry[1], code |-> entry[2][k].code,
      status |-> entry[2][k].status]]

RECURSIVE FlattenRows(_)
FlattenRows(d) ==
  IF d = <<>> THEN <<>> ELSE EntryRows(Head(d)) \o FlattenRows(Tail(d))

\* The subsequence of q at the positions in S.
Pick(q, S) ==
  [k \in 1..Cardinality(S) |->
     q[CHOOSE i \in S : Cardinality({j \in S : j <= i}) = k]]

\* DataFrame.drop_duplicates(): the first row of each kind is kept.
DropDuplicates(q) ==
  Pick(q, {i \in 1..Len(q) : \A j \in 1..(i - 1) : q[j] # q[i]})

\* DataFrame.drop_duplicates(subset=["code"])
DropDuplicateCodes(q) ==
  Pick(q, {i \in 1..Len(q) : \A j \in 1..(i - 1) : q[j].code # q[i].code})

\* Python's order on str: by code point, a proper prefix first.
StrLess(a, b) ==
  \E k \in 1..(Len(a) + 1) :
    /\ k <= Len(b)
    /\ \A j \in 1..(k - 1) : a[j] = b[j]
    /\ \/ k = Len(a) + 1
       \/ k <= Len(a) /\ Ord(a[k]) < Ord(b[k])

Orderings(n) ==
  {f \in [1..n -> 1..n] : \A i, j \in 1..n : f[i] = f[j] => i = j}

\* DataFrame.sort_values(by=["code"]): the sort is not stable, so the rows
\* of one code may come out in any order.
RECURSIVE Arrange(_, _)
Arrange(q, codes) ==
  IF codes = {} THEN {<<>>}
  ELSE LET least == CHOOSE c \in codes : \A d \in codes : ~StrLess(d, c)
           grp   == Pick(q, {i \in 1..Len(q) : q[i].code = least})
       IN  {[k \in 1..Len(grp) |-> grp[f[k]]] \o rest :
              f \in Orderings(Len(grp)),
              rest \in Arrange(q, codes \ {least})}

SortValues(q) == Arrange(q, {q[i].code : i \in 1..Len(q)})

\* rows = [...] over scanned.items()
Flatten ==
  /\ pc = "flatten"
  /\ rows' = FlattenRows(results)
  /\ pc' = "frame"
  /\ UNCHANGED <<df, dedup, output>>
  /\ UNCHANGED <<urls, site, max_workers, futures, work_queue, num_threads,
                 idle_semaphore, fetched, failed, snap, waiterQ, recorded,
                 results>>
  /\ UNCHANGED <<normVars, extractVars>>

\* df = pd.DataFrame(rows).drop_duplicates().sort_values(by=["code"]).
\* A DataFrame built from no rows has no columns, and sort_values raises
\* KeyError('code').
Frame ==
  /\ pc = "frame"
  /\ IF rows = <<>>
       THEN /\ pc' = "error"
            /\ UNCHANGED df
       ELSE /\ df' \in SortValues(DropDuplicates(rows))
            /\ pc' = "dedup"
  /\ UNCHANGED <<rows, dedup, output>>
  /\ UNCHANGED <<urls, site, max_workers, futures, work_queue, num_threads,
                 idle_semaphore, fetched, failed, snap, waiterQ, recorded,
                 results>>
  /\ UNCHANGED <<normVars, extractVars>>

\* dedup = df.drop_duplicates(subset=["code"]).sort_values("code") and the
\* text handed to st.code: one "CODE (STATUS)" line per row, or "(none)".
Dedup ==
  /\ pc = "dedup"
  /\ \E d \in SortValues(DropDuplicateCodes(df)) :
       /\ dedup' = d
       /\ output' = IF d = <<>> THEN <<"(none)">>
                    ELSE [k \in 1..Len(d) |-> <<d[k].code, d[k].status>>]
  /\ pc' = "done"
  /\ UNCHANGED <<rows, df>>
  /\ UNCHANGED <<urls, site, max_workers, futures, work_queue, num_threads,
                 idle_semaphore, fetched, failed, snap, waiterQ, recorded,
                 results>>
  /\ UNCHANGED <<normVars, extractVars>>

Next ==
  \/ Submit
  \/ WorkerTake
  \/ \E i \in 1..Len(futures) : \E resp \in Responses(i) : WorkerFinish(i, resp)
  \/ AsCompleted
  \/ \E i \in 1..Len(futures) : Collect(i)
  \/ ReturnScan

Init == InitScan

Spec == Init /\ [][Next]_vars

(***************************************************************************)
(* The aggregation on its own, from any scan result                        *)
(***************************************************************************)
MaxSources == 3

\* The dicts scan_trackers can return for at most MaxSources urls: each url
\* once, with the extraction of some content.
ScanResults ==
  UNION {{[k \in 1..n |-> <<UrlNames[k], items[k]>>] :
            items \in [1..n -> {ExtractOf[b] : b \in DOMAIN ExtractOf}]}
           : n \in 0..MaxSources}

InitAggregate ==
  /\ results \in ScanResults
  /\ pc = "flatten"
  /\ urls = [k \in 1..Len(results) |-> results[k][1]]
  /\ site = <<>>
  /\ max_workers = 1
  /\ futures = <<>> /\ work_queue = <<>> /\ num_threads = 0
  /\ idle_semaphore = 0 /\ fetched = <<>> /\ failed = <<>>
  /\ snap = {} /\ waiterQ = <<>> /\ recorded = <<>>
  /\ rows = <<>> /\ df = <<>> /\ dedup = <<>> /\ output = <<>>
  /\ NormIdle
  /\ ExtractIdle

NextAggregate == Flatten \/ Frame \/ Dedup

SpecAggregate == InitAggregate /\ [][NextAggregate]_vars

(***************************************************************************)
(* Properties                                                              *)
(***************************************************************************)
Range(q) == {q[k] : k \in 1..Len(q)}

Distinct(q) == \A i, j \in 1..Len(q) : q[i] = q[j] => i = j

\* The future recorded last among those of url u.
LastRecorded(u) ==
  recorded[CHOOSE k \in 1..Len(recorded) :
             /\ urls[recorded[k]] = u
             /\ \A m \in (k + 1)..Len(recorded) : urls[recorded[m]] # u]

\* C1: when scan_trackers has returned, every url was submitted, every
\* fetch has finished and every future has been recorded; for pairwise
\* distinct urls the mapping has exactly those urls as keys, each holding
\* the extraction of its own fetch.
ScanReturnsComplete ==
  pc = "returned" =>
    /\ Len(futures) = Len(urls)
    /\ \A i \in 1..Len(urls) : futures[i].state = "FINISHED"
    /\ Range(recorded) = 1..Len(urls)
    /\ Distinct(urls) =>
         /\ Keys(results) = Range(urls)
         /\ Len(results) = Len(urls)
         /\ \A i \in 1..Len(urls) :
              GetItem(results, urls[i]) = ExtractOf[futures[i].result[2]]

\* Three distinct urls on two workers, recorded out of submission order.
ScanReturnsCompleteWitness ==
  /\ pc = "returned"
  /\ Len(urls) = 3 /\ Distinct(urls)
  /\ max_workers = 2
  /\ recorded[1] = 2
  /\ Len(results) = 3

\* C2: a failed request never aborts the scan: the future of a failed fetch
\* holds (url, ""), the entry recorded for it is the empty list, and every
\* entry is the extraction of the content of its own fetch alone, whatever
\* became of the other fetches.
FailSoft ==
  /\ pc \in {"submit", "collect", "returned"}
  /\ \A i \in Finished :
       /\ futures[i].result[1] = urls[i]
       /\ failed[i] => futures[i].result[2] = <<>>
       /\ ~failed[i] => futures[i].result[2] = site[i]
  /\ \A u \in Keys(results) :
       GetItem(results, u) =
         IF failed[LastRecorded(u)] THEN <<>>
         ELSE ExtractOf[futures[LastRecorded(u)].result[2]]

\* The second of three fetches failed; the other two entries are the
\* extractions of their pages.
FailSoftWitness ==
  /\ pc = "returned"
  /\ Len(urls) = 3 /\ Distinct(urls)
  /\ failed = <<FALSE, TRUE, FALSE>>
  /\ GetItem(results, urls[2]) = <<>>
  /\ GetItem(results, urls[1]) = ExtractOf[PageA]
  /\ GetItem(results, urls[3]) = ExtractOf[PageA]

\* C3: at most max_workers fetches are in flight; each url occurrence is
\* fetched once and only once; a url after the first max_workers ones has
\* started only if an earlier fetch has finished.
BoundedPool ==
  /\ Cardinality(Running) <= max_workers
  /\ \A i \in 1..Len(futures) :
       /\ fetched[i] = IF futures[i].state = "PENDING" THEN 0 ELSE 1
       /\ (i > max_workers /\ futures[i].state # "PENDING") =>
            \E j \in 1..(i - 1) : futures[j].state = "FINISHED"
  /\ pc = "returned" =>
       /\ Len(fetched) = Len(urls)
       /\ \A i \in 1..Len(urls) : fetched[i] = 1

\* The pool of two is full, the third url is in flight, so one of the
\* first two has finished.
BoundedPoolWitness ==
  /\ max_workers = 2
  /\ Len(urls) = 3
  /\ Cardinality(Running) = 2
  /\ 3 \in Running

\* key in snippet, written out
Has(snippet, key) ==
  \E p \in 1..(Len(snippet) - Len(key) + 1) :
    \A k \in 1..Len(key) : snippet[p + k - 1] = key[k]

\* C4: the status of every record follows from its snippet alone: EXPIRED
\* when it has "expired", otherwise ACTIVE when it has "active" or "valid",
\* otherwise UNKNOWN; an empty snippet gives UNKNOWN.
StatusPrecedence ==
  /\ Len(snippets) = Len(records)
  /\ \A i \in 1..Len(records) :
       /\ records[i].status \in {"ACTIVE", "EXPIRED", "UNKNOWN"}
       /\ Has(snippets[i], KwExpired) => records[i].status = "EXPIRED"
       /\ (~Has(snippets[i], KwExpired)
             /\ (Has(snippets[i], KwActive) \/ Has(snippets[i], KwValid)))
            => records[i].status = "ACTIVE"
       /\ (~Has(snippets[i], KwExpired) /\ ~Has(snippets[i], KwActive)
             /\ ~Has(snippets[i], KwValid))
            => records[i].status = "UNKNOWN"
       /\ snippets[i] = <<>> => records[i].status = "UNKNOWN"

\* A snippet with both "valid" and "expired" gave EXPIRED.
StatusPrecedenceWitness ==
  \E i \in 1..Len(records) :
    /\ Has(snippets[i], KwValid)
    /\ Has(snippets[i], KwExpired)
    /\ records[i].status = "EXPIRED"

\* The ASCII letters and digits of a string, in order.
IsAlnum(c) == InClass(c, TRUE)

AlnumOf(str) == SelectSeq(str, IsAlnum)

\* Five groups of five of the 25 characters a, hyphens at 6, 12, 18, 24.
CanonicalOf(a) ==
  [p \in 1..29 |-> IF p % 6 = 0 THEN "-" ELSE a[p - (p \div 6)]]

AsciiUpper(a) == [k \in 1..Len(a) |-> UpperCh(a[k])[1]]

\* C5 as stated: an input with exactly 25 ASCII letters and digits, in any
\* casing and with anything else between them, is normalized to those 25
\* characters uppercased, in five hyphen-joined groups of five.
NormalizeCanonical ==
  (n_pc = "done" /\ Len(AlnumOf(raw)) = CodeLen) =>
    normalized = CanonicalOf(AsciiUpper(AlnumOf(raw)))

\* C5, amended: an input whose uppercase form has exactly 25 characters of
\* A-Z and 0-9 is normalized to those 25 characters, in order, in five
\* hyphen-joined groups of five: length 29, hyphens at 6, 12, 18 and 24.
NormalizeCanonicalOfUpper ==
  (n_pc = "done" /\ Len(SelectSeq(Upper(raw), IsCodeChar)) = CodeLen) =>
    /\ normalized = CanonicalOf(SelectSeq(Upper(raw), IsCodeChar))
    /\ Len(normalized) = 29
    /\ \A p \in 1..29 : (normalized[p] = "-") <=> (p \in {6, 12, 18, 24})

\* Mixed case, punctuation inside a group, padding and two-character gaps.
NormalizeCanonicalWitness ==
  /\ n_pc = "done"
  /\ Len(SelectSeq(Upper(raw), IsCodeChar)) = CodeLen
  /\ raw[1] = " "
  /\ \E p \in 1..Len(raw) : raw[p] = "/"
  /\ \E p \in 1..Len(raw) : raw[p] = "."
  /\ \E p \in 1..(Len(raw) - 1) : raw[p] = "-" /\ raw[p + 1] = " "
  /\ Len(normalized) = 29

\* C6 as stated: from any scan result the aggregation yields the full list
\* with each distinct (source, code, status) once, ordered by code, and the
\* code-only list with one entry per distinct code, ordered by code.
AggregationViews ==
  /\ pc # "error"
  /\ pc = "done" =>
       /\ Range(df) = Range(FlattenRows(results))
       /\ Distinct(df)
       /\ \A i, j \in 1..Len(df) : i < j => ~StrLess(df[j].code, df[i].code)
       /\ {dedup[k].code : k \in 1..Len(dedup)}
            = {r.code : r \in Range(FlattenRows(results))}
       /\ \A i, j \in 1..Len(dedup) : i < j => StrLess(dedup[i].code, dedup[j].code)
       /\ Range(dedup) \subseteq Range(df)

\* C7 as stated: a code matched without hyphens gets the status of the
\* window of 200 characters that starts where it was matched.
WindowAtOccurrence ==
  \A i \in 1..Len(records) :
    (\A p \in 1..Len(found[i]) : found[i][p] # "-") =>
      records[i].status
        = Classify(Window(Lower(text), FindSpans(text)[i][1]))

\* C8: each occurrence of a url is fetched on its own; the mapping has one
\* entry per distinct url, and it holds the extraction of the content of
\* the occurrence recorded last.
LastWriterWins ==
  pc = "returned" =>
    /\ Len(futures) = Len(urls)
    /\ \A i \in 1..Len(urls) : fetched[i] = 1 /\ futures[i].result[1] = urls[i]
    /\ Len(results) = Cardinality(Range(urls))
    /\ \A u \in Range(urls) :
         GetItem(results, u) = ExtractOf[futures[LastRecorded(u)].result[2]]

\* The same url twice with differing contents; the occurrence submitted
\* first was recorded last and its extraction is the one that is kept.
LastWriterWinsWitness ==
  /\ pc = "returned"
  /\ urls = <<"u1", "u1">>
  /\ recorded = <<2, 1>>
  /\ ExtractOf[futures[1].result[2]] # ExtractOf[futures[2].result[2]]
  /\ results = <<(<<"u1", ExtractOf[futures[1].result[2]]>>)>>

\* C9: within the records of one page, records with the same code have the
\* same status.
StatusFunctionOfCode ==
  \A i, j \in 1..Len(records) :
    records[i].code = records[j].code => records[i].status = records[j].status

\* A later occurrence is followed by "expired" within its own window, but
\* is not EXPIRED, the first occurrence being too far ahead of the keyword.
StatusFunctionOfCodeWitness ==
  /\ x_pc = "done"
  /\ \E i, j \in 1..Len(records) :
       /\ i < j
       /\ records[i].code = records[j].code
       /\ Has(Window(Lower(text), FindSpans(text)[j][1]), KwExpired)
       /\ records[j].status # "EXPIRED"

\* C10 as stated: a scan result without any record is aggregated without
\* error into an empty full list and an empty code-only list shown as
\* "(none)".
EmptyScanShowsNone ==
  FlattenRows(results) = <<>> =>
    /\ pc # "error"
    /\ pc = "done" => df = <<>> /\ dedup = <<>> /\ output = <<"(none)">>

====
